---------------------------- MODULE Spec2Model ----------------------------
(***************************************************************************)
(* Model of the TUPA document ingestion pipeline of document_processor.py: *)
(* DocumentProcessor.extract_text_from_pdf, clean_text, chunk_text,        *)
(* process_pdf_file and process_multiple_pdfs.                             *)
(*                                                                         *)
(* A Python str is a sequence of one-character strings.  The whitespace    *)
(* characters of the model are the space and the newline; NUL stands for   *)
(* the character \x00; every other character is an ordinary one.           *)
(***************************************************************************)
EXTENDS Integers, Sequences, FiniteSets, TLC

VARIABLES
    pc,             \* position of the running call
    listing,        \* the directory: [ok, entries], each entry [name, doc]
    pdf_files,      \* process_multiple_pdfs: the filtered listing
    file_idx,       \* process_multiple_pdfs: position of the for loop
    all_chunks,     \* process_multiple_pdfs: all_chunks
    result,         \* what process_multiple_pdfs returned
    returned,       \* history: [file, chunks] of every process_pdf_file return
    raw_text,       \* process_pdf_file: raw_text (clean_text's argument)
    text,           \* chunk_text's argument text (clean_text's result)
    again,          \* clean_text applied to its own result
    source,         \* chunk_text's argument source
    chunk_size,     \* self.chunk_size
    chunk_overlap,  \* self.chunk_overlap
    paragraphs,     \* chunk_text: paragraphs
    next_par,       \* chunk_text: position of the for loop
    current_chunk,  \* chunk_text: current_chunk
    chunk_id,       \* chunk_text: chunk_id
    chunks,         \* chunk_text: chunks
    cur_seed,       \* history: the paragraph current_chunk was started from
    emit_log        \* history: per fragment, its seed and the overflowing paragraph

vars == <<pc, listing, pdf_files, file_idx, all_chunks, result, returned,
          raw_text, text, again, source, chunk_size, chunk_overlap, paragraphs,
          next_par, current_chunk, chunk_id, chunks, cur_seed, emit_log>>

batchVars == <<listing, pdf_files, file_idx, all_chunks, result, returned>>
chunkVars == <<paragraphs, next_par, current_chunk, chunk_id, chunks, cur_seed,
               emit_log>>
configVars == <<chunk_size, chunk_overlap>>

---------------------------------------------------------------------------
(* Bounds of the model *)

MaxTextLen == 6
MaxChunkSize == 3
MaxOverlap == 1
MaxPieces == 5
MaxPagePieces == 3
MaxFiles == 2
MaxPages == 1

---------------------------------------------------------------------------
(* Characters and strings *)

SP == " "
NL == "\n"
NUL == "NUL"
Whitespace == {SP, NL}

MinLineLength == 10

Min(S) == CHOOSE x \in S : \A y \in S : x <= y

SeqsUpTo(S, n) == UNION {[1..k -> S] : k \in 0..n}

RECURSIVE Flatten(_)
Flatten(ss) == IF ss = <<>> THEN <<>> ELSE Head(ss) \o Flatten(Tail(ss))

RECURSIVE Rep(_, _)
Rep(c, n) == IF n = 0 THEN <<>> ELSE <<c>> \o Rep(c, n - 1)

StartsWith(s, p) == Len(p) <= Len(s) /\ SubSeq(s, 1, Len(p)) = p
EndsWith(s, p) == Len(p) <= Len(s) /\ SubSeq(s, Len(s) - Len(p) + 1, Len(s)) = p

\* the positions at which sep occurs in s
Occurrences(s, sep) ==
    {i \in 1..(Len(s) - Len(sep) + 1) : SubSeq(s, i, i + Len(sep) - 1) = sep}

\* str.split(sep)
RECURSIVE Split(_, _)
Split(s, sep) ==
    IF Occurrences(s, sep) = {} THEN <<s>>
    ELSE LET i == Min(Occurrences(s, sep))
         IN  <<SubSeq(s, 1, i - 1)>> \o Split(SubSeq(s, i + Len(sep), Len(s)), sep)

\* sep.join(parts)
RECURSIVE Join(_, _)
Join(parts, sep) ==
    IF parts = <<>> THEN <<>>
    ELSE IF Len(parts) = 1 THEN parts[1]
    ELSE parts[1] \o sep \o Join(Tail(parts), sep)

\* str.replace(old, new)
RECURSIVE Replace(_, _, _)
Replace(s, old, new) ==
    IF Occurrences(s, old) = {} THEN s
    ELSE LET i == Min(Occurrences(s, old))
         IN  SubSeq(s, 1, i - 1) \o new
               \o Replace(SubSeq(s, i + Len(old), Len(s)), old, new)

RECURSIVE LStrip(_)
LStrip(s) ==
    IF s # <<>> /\ Head(s) \in Whitespace THEN LStrip(Tail(s)) ELSE s

RECURSIVE RStrip(_)
RStrip(s) ==
    IF s # <<>> /\ s[Len(s)] \in Whitespace
    THEN RStrip(SubSeq(s, 1, Len(s) - 1)) ELSE s

\* str.strip()
Strip(s) == RStrip(LStrip(s))

\* the length of the longest prefix of s made of characters outside class
RECURSIVE WordLen(_, _)
WordLen(s, class) ==
    IF s = <<>> \/ Head(s) \in class THEN 0 ELSE 1 + WordLen(Tail(s), class)

\* str.split() with no argument: the maximal runs of non-whitespace
RECURSIVE SplitWords(_)
SplitWords(s) ==
    LET t == LStrip(s)
        n == WordLen(t, Whitespace)
    IN  IF t = <<>> THEN <<>>
        ELSE <<SubSeq(t, 1, n)>> \o SplitWords(SubSeq(t, n + 1, Len(t)))

DigitChar == <<"0", "1", "2", "3", "4", "5", "6", "7", "8", "9">>

\* str(n) for n >= 0
RECURSIVE Digits(_)
Digits(n) ==
    IF n < 10 THEN <<DigitChar[n + 1]>>
    ELSE Digits(n \div 10) \o <<DigitChar[(n % 10) + 1]>>

---------------------------------------------------------------------------
(* extract_text_from_pdf *)

\* the page marker "--- Página {n} ---"; the accented letter is modelled as
\* an ordinary character
PageMarker(n) ==
    <<"-", "-", "-", SP, "P", "a", "g", "i", "n", "a", SP>> \o Digits(n)
        \o <<SP, "-", "-", "-">>

\* doc = [ok, pages]: ok is FALSE when opening or reading the file raises,
\* pages are the strings page.extract_text() returns
extract_text_from_pdf(doc) ==
    IF ~doc.ok THEN <<>>
    ELSE Flatten([n \in 1..Len(doc.pages) |->
                    <<NL>> \o PageMarker(n) \o <<NL>> \o doc.pages[n] \o <<NL>>])

---------------------------------------------------------------------------
(* clean_text *)

\* the length of the longest prefix of s made of characters of class
RECURSIVE RunLen(_, _)
RunLen(s, class) ==
    IF s = <<>> \/ Head(s) \notin class THEN 0 ELSE 1 + RunLen(Tail(s), class)

\* re.sub(class+, repl, s)
RECURSIVE CollapseRuns(_, _, _)
CollapseRuns(s, class, repl) ==
    IF s = <<>> THEN <<>>
    ELSE IF Head(s) \in class
    THEN <<repl>> \o CollapseRuns(SubSeq(s, RunLen(s, class) + 1, Len(s)), class, repl)
    ELSE <<Head(s)>> \o CollapseRuns(Tail(s), class, repl)

\* a collapse that matches runs of spaces only
CollapseSpacesOnly(s) == CollapseRuns(s, {SP}, SP)

\* re.sub(r'\s+', ' ', text)
CollapseWhitespace(s) == CollapseRuns(s, Whitespace, SP)

\* re.sub(r'\n+', '\n', text)
CollapseNewlines(s) == CollapseRuns(s, {NL}, NL)

\* text.replace('\x00', '')
RemoveNulls(s) == SelectSeq(s, LAMBDA c : c # NUL)

\* [line.strip() for line in lines if len(line.strip()) > 10]
CleanedLines(lines) ==
    SelectSeq([i \in 1..Len(lines) |-> Strip(lines[i])],
              LAMBDA line : Len(line) > MinLineLength)

clean_text(s) ==
    LET t1 == CollapseWhitespace(s)
        t2 == CollapseNewlines(t1)
        t3 == RemoveNulls(t2)
        lines == Split(t3, <<NL>>)
    IN  Join(CleanedLines(lines), <<NL>>)

---------------------------------------------------------------------------
(* chunk_text *)

\* text.split('\n\n')
SplitParagraphs(t) == Split(t, <<NL, NL>>)

\* len(current_chunk) + len(paragraph) > self.chunk_size
Overflows(cur, paragraph, size) == Len(cur) + Len(paragraph) > size

\* f"{source}_chunk_{chunk_id}"
ChunkIdString(src, id) ==
    src \o <<"_", "c", "h", "u", "n", "k", "_">> \o Digits(id)

\* DocumentChunk(id=..., text=current_chunk.strip(), metadata={...})
MakeChunk(src, id, cur) ==
    [id |-> ChunkIdString(src, id),
     text |-> Strip(cur),
     metadata |-> [source |-> src, chunk_id |-> id, document_type |-> "tupa"]]

\* a counter that is not advanced
SameChunkId(id) == id

\* chunk_id += 1
NextChunkId(id) == id + 1

\* an overlap taken from the front of the previous chunk
FirstWords(words, k) == IF Len(words) > k THEN SubSeq(words, 1, k) ELSE words

\* words[-self.chunk_overlap:] if len(words) > self.chunk_overlap else words
OverlapWords(words, k) ==
    IF Len(words) > k THEN SubSeq(words, Len(words) - k + 1, Len(words)) ELSE words

\* a new chunk that starts from the overlap alone
OverlapOnly(cur, paragraph, k) ==
    IF k > 0 THEN Join(OverlapWords(SplitWords(cur), k), <<SP>>) ELSE paragraph

\* the new current_chunk after an emission
OverlapSeed(cur, paragraph, k) ==
    IF k > 0
    THEN Join(OverlapWords(SplitWords(cur), k), <<SP>>) \o <<SP>> \o paragraph
    ELSE paragraph

\* current_chunk += '\n\n' + paragraph if current_chunk else paragraph
AppendParagraph(cur, paragraph) ==
    IF cur # <<>> THEN cur \o <<NL, NL>> \o paragraph ELSE paragraph

\* lines 93-98: the locals of chunk_text before its loop
ChunkEnter ==
    /\ pc = "call"
    /\ paragraphs' = SplitParagraphs(text)
    /\ next_par' = 1
    /\ current_chunk' = <<>>
    /\ chunk_id' = 0
    /\ chunks' = <<>>
    /\ cur_seed' = <<>>
    /\ emit_log' = <<>>
    /\ pc' = "chunking"
    /\ UNCHANGED <<batchVars, configVars, raw_text, text, again, source>>

\* lines 100-126: one iteration of the loop over paragraphs
ChunkStep ==
    /\ pc = "chunking"
    /\ next_par <= Len(paragraphs)
    /\ LET paragraph == paragraphs[next_par] IN
         IF Overflows(current_chunk, paragraph, chunk_size)
         THEN IF current_chunk # <<>>
              THEN /\ chunks' = Append(chunks, MakeChunk(source, chunk_id, current_chunk))
                   /\ chunk_id' = NextChunkId(chunk_id)
                   /\ current_chunk' = OverlapSeed(current_chunk, paragraph, chunk_overlap)
                   /\ emit_log' = Append(emit_log,
                                         [seed |-> cur_seed, overflow |-> <<paragraph>>])
                   /\ cur_seed' = paragraph
              ELSE /\ current_chunk' = paragraph
                   /\ cur_seed' = paragraph
                   /\ UNCHANGED <<chunks, chunk_id, emit_log>>
         ELSE /\ current_chunk' = AppendParagraph(current_chunk, paragraph)
              /\ cur_seed' = IF current_chunk # <<>> THEN cur_seed ELSE paragraph
              /\ UNCHANGED <<chunks, chunk_id, emit_log>>
    /\ next_par' = next_par + 1
    /\ UNCHANGED <<pc, batchVars, configVars, raw_text, text, again, source, paragraphs>>

\* lines 128-141: the last chunk and the return
ChunkFinish ==
    /\ pc = "chunking"
    /\ next_par > Len(paragraphs)
    /\ IF Strip(current_chunk) # <<>>
       THEN /\ chunks' = Append(chunks, MakeChunk(source, chunk_id, current_chunk))
            /\ emit_log' = Append(emit_log, [seed |-> cur_seed, overflow |-> <<>>])
       ELSE UNCHANGED <<chunks, emit_log>>
    /\ pc' = "returned"
    /\ UNCHANGED <<batchVars, configVars, raw_text, text, again, source, paragraphs,
                   next_par, current_chunk, chunk_id, cur_seed>>

---------------------------------------------------------------------------
(* process_pdf_file and process_multiple_pdfs *)

PdfSuffix == <<".", "p", "d", "f">>

\* a listing that is not filtered
AllFiles(entries) == entries

\* [f for f in os.listdir(pdf_directory) if f.endswith('.pdf')]
PdfFiles(entries) == SelectSeq(entries, LAMBDA e : EndsWith(e.name, PdfSuffix))

\* os.path.basename(pdf_path).replace('.pdf', '')
SourceName(name) == Replace(name, PdfSuffix, <<>>)

\* an assignment in place of the extension
Overwrite(all, new) == new

\* all_chunks.extend(chunks)
Extend(all, new) == all \o new

\* lines 186-190, and 200-202 when os.listdir raises
ListDir ==
    /\ pc = "start"
    /\ IF listing.ok
       THEN /\ pdf_files' = PdfFiles(listing.entries)
            /\ pc' = "files"
            /\ UNCHANGED result
       ELSE /\ result' = <<>>
            /\ pc' = "done"
            /\ UNCHANGED pdf_files
    /\ UNCHANGED <<listing, file_idx, all_chunks, returned, raw_text, text, again,
                   source, configVars, chunkVars>>

\* lines 192-194 and 153-167: the next file, up to the call of chunk_text;
\* lines 159-161 return [] to line 195 when nothing was extracted
BeginFile ==
    /\ pc = "files"
    /\ file_idx <= Len(pdf_files)
    /\ LET pdf_file == pdf_files[file_idx]
           raw == extract_text_from_pdf(pdf_file.doc)
       IN  /\ source' = SourceName(pdf_file.name)
           /\ raw_text' = raw
           /\ IF raw = <<>>
              THEN /\ returned' = Append(returned, [file |-> pdf_file.name, chunks |-> <<>>])
                   /\ all_chunks' = Extend(all_chunks, <<>>)
                   /\ file_idx' = file_idx + 1
                   /\ UNCHANGED <<pc, text>>
              ELSE /\ text' = clean_text(raw)
                   /\ pc' = "call"
                   /\ UNCHANGED <<returned, all_chunks, file_idx>>
    /\ UNCHANGED <<listing, pdf_files, result, again, configVars, chunkVars>>

\* lines 169-170 and 195: process_pdf_file returns chunks, the batch extends
EndFile ==
    /\ pc = "returned"
    /\ returned' = Append(returned, [file |-> pdf_files[file_idx].name, chunks |-> chunks])
    /\ all_chunks' = Extend(all_chunks, chunks)
    /\ file_idx' = file_idx + 1
    /\ pc' = "files"
    /\ UNCHANGED <<listing, pdf_files, result, raw_text, text, again, source,
                   configVars, chunkVars>>

\* lines 197-198
BatchReturn ==
    /\ pc = "files"
    /\ file_idx > Len(pdf_files)
    /\ result' = all_chunks
    /\ pc' = "done"
    /\ UNCHANGED <<listing, pdf_files, file_idx, all_chunks, returned, raw_text, text,
                   again, source, configVars, chunkVars>>

---------------------------------------------------------------------------
(* The batch: process_multiple_pdfs over a directory *)

\* the characters of the texts handed to chunk_text directly
ChunkAlphabet == {"a", "b", SP, NL}

\* the pieces raw texts are made of: a run of MinLineLength ordinary
\* characters, one ordinary character, a space, a newline, a null character
Block == Rep("a", MinLineLength)
Pieces == {Block, <<"a">>, <<SP>>, <<NL>>, <<NUL>>}
RawTexts(n) == {Flatten(ps) : ps \in SeqsUpTo(Pieces, n)}

FileNames ==
    {<<"a">> \o PdfSuffix, <<"b">> \o PdfSuffix, <<"n", ".", "t", "x", "t">>}

\* the page texts of the documents of a batch
SmallPages == {<<>>, <<"a", NL, NL, "b", NL>>}

FailedDoc == [ok |-> FALSE, pages |-> <<>>]
SmallDocs ==
    {FailedDoc} \cup {[ok |-> TRUE, pages |-> ps] : ps \in SeqsUpTo(SmallPages, MaxPages)}

\* one-page documents with any page text
OnePageDocs == {[ok |-> TRUE, pages |-> <<t>>] : t \in RawTexts(MaxPagePieces)}

\* listings of distinct names, and the listings of one readable document
Directories ==
    {d \in SeqsUpTo([name : FileNames, doc : SmallDocs], MaxFiles) :
        \A i, j \in 1..Len(d) : i # j => d[i].name # d[j].name}
    \cup {<<[name |-> <<"a">> \o PdfSuffix, doc |-> doc]>> : doc \in OnePageDocs}

BlankChunkState ==
    /\ paragraphs = <<>>
    /\ next_par = 1
    /\ current_chunk = <<>>
    /\ chunk_id = 0
    /\ chunks = <<>>
    /\ cur_seed = <<>>
    /\ emit_log = <<>>

BlankBatchState ==
    /\ listing = [ok |-> TRUE, entries |-> <<>>]
    /\ pdf_files = <<>>
    /\ file_idx = 1
    /\ all_chunks = <<>>
    /\ result = <<>>
    /\ returned = <<>>

Init ==
    /\ pc = "start"
    /\ listing \in {[ok |-> TRUE, entries |-> d] : d \in Directories}
                   \cup {[ok |-> FALSE, entries |-> <<>>]}
    /\ pdf_files = <<>>
    /\ file_idx = 1
    /\ all_chunks = <<>>
    /\ result = <<>>
    /\ returned = <<>>
    /\ raw_text = <<>>
    /\ text = <<>>
    /\ again = <<>>
    /\ source = <<>>
    /\ chunk_size \in {MaxChunkSize, 100 * MaxChunkSize}
    /\ chunk_overlap \in {0, MaxOverlap}
    /\ BlankChunkState

Next == ListDir \/ BeginFile \/ ChunkEnter \/ ChunkStep \/ ChunkFinish \/ EndFile
            \/ BatchReturn

Spec == Init /\ [][Next]_vars

---------------------------------------------------------------------------
(* chunk_text on any text *)

Sources == {<<"t">>, <<"t", "_", "1">>}

InitChunk ==
    /\ pc = "call"
    /\ text \in SeqsUpTo(ChunkAlphabet, MaxTextLen)
    /\ source \in Sources
    /\ chunk_size \in 1..MaxChunkSize
    /\ chunk_overlap \in 0..MaxOverlap
    /\ raw_text = <<>>
    /\ again = <<>>
    /\ BlankBatchState
    /\ BlankChunkState

NextChunk == ChunkEnter \/ ChunkStep \/ ChunkFinish

SpecChunk == InitChunk /\ [][NextChunk]_vars

---------------------------------------------------------------------------
(* clean_text on any raw text, and on its own result *)

CleanOnce ==
    /\ pc = "raw"
    /\ text' = clean_text(raw_text)
    /\ pc' = "cleaned"
    /\ UNCHANGED <<batchVars, configVars, chunkVars, raw_text, again, source>>

CleanTwice ==
    /\ pc = "cleaned"
    /\ again' = clean_text(text)
    /\ pc' = "recleaned"
    /\ UNCHANGED <<batchVars, configVars, chunkVars, raw_text, text, source>>

InitClean ==
    /\ pc = "raw"
    /\ raw_text \in RawTexts(MaxPieces)
    /\ text = <<>>
    /\ again = <<>>
    /\ source = <<>>
    /\ chunk_size = MaxChunkSize
    /\ chunk_overlap = 0
    /\ BlankBatchState
    /\ BlankChunkState

NextClean == CleanOnce \/ CleanTwice

SpecClean == InitClean /\ [][NextClean]_vars

---------------------------------------------------------------------------
(* Properties *)

Range(s) == {s[i] : i \in 1..Len(s)}

IsBlank(s) == Range(s) \subseteq Whitespace

HasPair(s, c) == \E i \in 1..(Len(s) - 1) : s[i] = c /\ s[i + 1] = c

\* the last k elements of ws, all of them when there are fewer
LastOf(ws, k) ==
    LET n == IF Len(ws) < k THEN Len(ws) ELSE k
    IN  [j \in 1..n |-> ws[Len(ws) - n + j]]

\* the start the next fragment is to have after an emission: the last k words
\* of the previous fragment, a space and the paragraph; the paragraph when k = 0
ExpectedStart(prev, paragraph, k) ==
    IF k > 0 THEN Join(LastOf(SplitWords(prev), k), <<SP>>) \o <<SP>> \o paragraph
    ELSE paragraph

\* the fragments emitted because a paragraph overflowed, that have a successor
OverflowEmissions ==
    {i \in 1..Len(emit_log) : emit_log[i].overflow # <<>> /\ i + 1 <= Len(chunks)}

\* C1: every fragment of chunk_text is at most chunk_size long, unless its
\* accumulator was started from a paragraph that is longer than chunk_size
ChunkSizeBound ==
    \A i \in 1..Len(chunks) :
        \/ Len(emit_log[i].seed) > chunk_size
        \/ Len(chunks[i].text) <= chunk_size

\* C2: clean_text applied to its own result returns that result
CleanIdempotent == pc = "recleaned" => again = text

\* C3: the result of clean_text has no two consecutive spaces, no two
\* consecutive newlines and no null character
CleanWhitespaceBound ==
    pc \in {"cleaned", "recleaned"} =>
        /\ ~HasPair(text, SP)
        /\ ~HasPair(text, NL)
        /\ NUL \notin Range(text)

\* C4: every fragment of chunk_text, emitted in the loop or at the end, has a
\* non-empty text
FragmentsNonEmpty == \A i \in 1..Len(chunks) : chunks[i].text # <<>>

\* C5: chunk_text returns no fragment for a text that is empty or made of
\* spaces and newlines only
BlankYieldsNothing == pc = "returned" /\ IsBlank(text) => chunks = <<>>

\* C6: the i-th fragment (from 0) has chunk_id i and id "{source}_chunk_{i}",
\* and no two fragments of a source share an id
IndexContiguity ==
    \A i \in 1..Len(chunks) :
        /\ chunks[i].metadata.chunk_id = i - 1
        /\ chunks[i].id = source \o <<"_", "c", "h", "u", "n", "k", "_">> \o Digits(i - 1)
        /\ \A j \in 1..Len(chunks) : j # i => chunks[j].id # chunks[i].id

IndexContiguityWitness ==
    /\ pc = "returned"
    /\ Len(chunks) >= 3
    /\ emit_log[Len(chunks)].overflow = <<>>

\* C7: every word of every paragraph of the text is a word of the text of
\* some returned fragment
Coverage ==
    pc = "returned" =>
        \A i \in 1..Len(paragraphs) :
            \A w \in Range(SplitWords(paragraphs[i])) :
                \E j \in 1..Len(chunks) : w \in Range(SplitWords(chunks[j].text))

CoverageWitness ==
    /\ pc = "returned"
    /\ chunk_overlap > 0
    /\ Len(chunks) >= 2
    /\ \E i \in 1..Len(paragraphs) : Len(paragraphs[i]) > chunk_size
    /\ \E i, j \in 1..Len(paragraphs) :
          /\ i # j
          /\ SplitWords(paragraphs[i]) # <<>>
          /\ SplitWords(paragraphs[j]) # <<>>
          /\ Range(SplitWords(paragraphs[i])) \cap Range(SplitWords(paragraphs[j])) = {}

\* C8 as stated: after fragment i is emitted because paragraph p overflows,
\* the text of fragment i+1 begins with the last k words of fragment i joined
\* by single spaces, a space and p; with p alone when k = 0
OverlapPrefixExact ==
    \A i \in OverflowEmissions :
        StartsWith(chunks[i + 1].text,
                   ExpectedStart(chunks[i].text, emit_log[i].overflow[1], chunk_overlap))

\* C8 amended: the text of fragment i+1, when there is one, begins with that
\* string with its leading and trailing whitespace removed
OverlapPrefixTrimmed ==
    \A i \in OverflowEmissions :
        StartsWith(chunks[i + 1].text,
                   Strip(ExpectedStart(chunks[i].text, emit_log[i].overflow[1],
                                       chunk_overlap)))

OverlapPrefixWitness ==
    /\ pc = "returned"
    /\ chunk_overlap > 0
    /\ \E i \in OverflowEmissions :
          /\ Len(SplitWords(chunks[i].text)) > chunk_overlap
          /\ SplitWords(emit_log[i].overflow[1]) # <<>>
          /\ Head(SplitWords(chunks[i].text)) # chunks[i].text

\* the entries of the listing with the suffix .pdf, in listing order
PdfEntries == SelectSeq(listing.entries, LAMBDA e : EndsWith(e.name, PdfSuffix))

\* C9: process_multiple_pdfs returns, in listing order, the fragments that
\* process_pdf_file returned for every .pdf entry; a document with no
\* extracted text gives none and the documents after it are still processed
BatchConcatenation ==
    pc = "done" /\ listing.ok =>
        /\ Len(returned) = Len(PdfEntries)
        /\ \A i \in 1..Len(returned) :
              /\ returned[i].file = PdfEntries[i].name
              /\ extract_text_from_pdf(PdfEntries[i].doc) = <<>>
                    => returned[i].chunks = <<>>
        /\ result = Flatten([i \in 1..Len(returned) |-> returned[i].chunks])

BatchConcatenationWitness ==
    /\ pc = "done"
    /\ Len(listing.entries) >= 2
    /\ Len(returned) = 2
    /\ ~PdfEntries[1].doc.ok
    /\ returned[2].chunks # <<>>
    /\ result = returned[2].chunks

\* C10: the text process_pdf_file hands to chunk_text has no newline, is one
\* paragraph, and process_pdf_file returns at most one fragment
SinglePdfFragment ==
    /\ NL \notin Range(text)
    /\ pc = "chunking" => Len(paragraphs) = 1
    /\ Len(chunks) <= 1
    /\ \A i \in 1..Len(returned) : Len(returned[i].chunks) <= 1

SinglePdfFragmentWitness ==
    /\ pc = "returned"
    /\ Occurrences(raw_text, <<NL, NL>>) # {}
    /\ Len(chunks) = 1
    /\ Len(chunks[1].text) > 3 * chunk_size

=============================================================================
